---------------------------- MODULE Spec2Model ----------------------------
(***************************************************************************)
(* A model of dt174b.py, the host-side driver of the CEM DT-174B weather   *)
(* datalogger: the download generator read_log, the settings upload        *)
(* send_settings, the scoped mode switch _temporary_device_state, the      *)
(* control wrapper _send_control, the settings codec SettingsPacket and    *)
(* the measurement decoder data_parser.                                    *)
(*                                                                         *)
(* The USB transport is the environment.  Every transport call is one      *)
(* step of the model; its result (a return value or a raised usb.USBError) *)
(* is drawn from a small set.  A data buffer of the chunk loop is          *)
(* represented by its length, the only thing read_log looks at.            *)
(***************************************************************************)
EXTENDS Integers, Sequences, FiniteSets, TLC

(***************************************************************************)
(* Program constants.                                                      *)
(***************************************************************************)
BUF_SIZE == 128
DOWNLOAD_INIT_CMD == <<15, 0, 0>>
DOWNLOAD_INIT_RES_PRFIX == 15
DOWNLOAD_CHUNK_OK_RES == <<254, 1, 0>>
SETTINGS_HEADER == <<14, 64, 0>>
SETTINGS_ACK == <<255>>
STATE_PRIMED == 2
STATE_IDLE == 4
PIPE_ERRNO == 32
INNER_READS == 4

(***************************************************************************)
(* Bounds of the environment.                                              *)
(***************************************************************************)
MaxTotal == 2
MaxBufs == 5
MaxTimeouts == 2
MaxRecords == 2

(***************************************************************************)
(* Results of a call: a returned value, or a raised exception.             *)
(***************************************************************************)
Ret(v) == [t |-> "ret", v |-> v, e |-> "none"]
RaiseSeq(e) == [t |-> "raise", v |-> <<>>, e |-> e]
RaiseInt(e) == [t |-> "raise", v |-> 0, e |-> e]

(***************************************************************************)
(* struct: the format codes used by the module, standard sizes, network    *)
(* byte order ('!' and '>'), no alignment.  A format is the sequence of    *)
(* its codes.                                                              *)
(***************************************************************************)
StructError == "struct.error"

\* a variant in which a pad code takes no byte of the record
CodeSizePadEmpty(c) == CASE c = "B" -> 1
                         [] c = "x" -> 0
                         [] c = "h" -> 2
                         [] c = "H" -> 2

CodeSize(c) == CASE c = "B" -> 1
                 [] c = "x" -> 1
                 [] c = "h" -> 2
                 [] c = "H" -> 2

RECURSIVE calcsize(_)
calcsize(fmt) == IF fmt = <<>> THEN 0 ELSE CodeSize(Head(fmt)) + calcsize(Tail(fmt))

InRange(c, v) == CASE c = "B" -> v \in 0..255
                   [] c = "h" -> v \in (-32768)..32767
                   [] c = "H" -> v \in 0..65535

EncodeBE16(v) == <<(v % 65536) \div 256, v % 256>>

Encode(c, v) == CASE c = "B" -> <<v>>
                  [] c = "h" -> EncodeBE16(v)
                  [] c = "H" -> EncodeBE16(v)

DecodeBE16(b) == b[1] * 256 + b[2]

Signed16(u) == IF u >= 32768 THEN u - 65536 ELSE u

Decode(c, b) == CASE c = "B" -> b[1]
                  [] c = "H" -> DecodeBE16(b)
                  [] c = "h" -> Signed16(DecodeBE16(b))

NumValues(fmt) == Cardinality({n \in 1..Len(fmt) : fmt[n] # "x"})

RECURSIVE PackCodes(_, _)
\* the bytes of the values under the codes; a pad code writes a zero byte
PackCodes(fmt, vals) ==
    IF fmt = <<>> THEN <<>>
    ELSE IF Head(fmt) = "x" THEN <<0>> \o PackCodes(Tail(fmt), vals)
    ELSE Encode(Head(fmt), Head(vals)) \o PackCodes(Tail(fmt), Tail(vals))

RECURSIVE ValuesFit(_, _)
ValuesFit(fmt, vals) ==
    IF fmt = <<>> THEN TRUE
    ELSE IF Head(fmt) = "x" THEN ValuesFit(Tail(fmt), vals)
    ELSE InRange(Head(fmt), Head(vals)) /\ ValuesFit(Tail(fmt), Tail(vals))

\* struct.pack: the bytes; struct.error when the argument count or a range is off
pack(fmt, vals) ==
    IF Len(vals) # NumValues(fmt) \/ ~ValuesFit(fmt, vals) THEN RaiseSeq(StructError)
    ELSE Ret(PackCodes(fmt, vals))

RECURSIVE UnpackCodes(_, _)
UnpackCodes(fmt, data) ==
    IF fmt = <<>> THEN <<>>
    ELSE LET n == CodeSize(Head(fmt))
             rest == UnpackCodes(Tail(fmt), SubSeq(data, n + 1, Len(data)))
         IN IF Head(fmt) = "x" THEN rest
            ELSE <<Decode(Head(fmt), SubSeq(data, 1, n))>> \o rest

\* struct.unpack: the values; struct.error unless len(data) == calcsize(fmt)
unpack(fmt, data) ==
    IF Len(data) # calcsize(fmt) THEN RaiseSeq(StructError)
    ELSE Ret(UnpackCodes(fmt, data))

(***************************************************************************)
(* SettingsPacket.                                                         *)
(***************************************************************************)
FORMAT == <<"B", "B", "B", "B", "B", "H", "B", "B", "B",
            "B", "B", "H", "B", "h", "h", "H", "H", "h", "h",
            "B", "h", "H">>
XFORMAT == <<"B", "B", "B", "B", "B", "H", "x", "x", "x",
             "B", "B", "H", "B", "h", "h", "H", "H", "h", "h",
             "x", "h", "H">>

\* the namedtuple's fields, in declaration order
SettingsFields == <<"year", "month", "day", "hour", "min", "sec",
                    "rec_int", "alm_int", "smpl_int", "auto",
                    "temp_high", "temp_low", "hum_high", "hum_low",
                    "pressure_high", "pressure_low", "alt", "samples">>

PRESSURE_BIAS == 10132

\* `x if x else 0xff`
OrFF(x) == IF x # 0 THEN x ELSE 255

\* the arguments SettingsPacket.pack hands to struct.pack, in order
PackArgs(r) ==
    <<r.sec, r.min, r.hour, r.day, r.month, r.year,
      255, 255, 255,
      OrFF(r.rec_int), OrFF(r.alm_int), r.smpl_int, r.auto,
      r.temp_high * 100, r.temp_low * 100,
      r.hum_high * 10, r.hum_low * 10,
      r.pressure_high * 10 - PRESSURE_BIAS,
      r.pressure_low * 10 - PRESSURE_BIAS,
      90,
      r.alt, r.samples>>

SettingsPack(r) == pack(FORMAT, PackArgs(r))

FieldIndex(f) == CHOOSE n \in 1..Len(SettingsFields) : SettingsFields[n] = f

\* cls(*packet): the values become the fields positionally
FromValues(vals) ==
    [f \in {SettingsFields[n] : n \in 1..Len(SettingsFields)} |-> vals[FieldIndex(f)]]

SettingsUnpack(data) ==
    LET u == unpack(XFORMAT, data)
    IN IF u.t = "raise" THEN [t |-> "raise", e |-> u.e]
       ELSE [t |-> "ret", rec |-> FromValues(u.v)]

VARIABLES
    op,         \* the operation in progress: "none", "read_log", "send_settings"
    pc,         \* the position of the operation, named after the call it makes next
    exc,        \* the exception in flight
    outcome,    \* how the operation ended, as its caller sees it
    total,      \* read_log: total, as announced by the init response
    remaining,  \* read_log: remaining
    i,          \* read_log: chunk index i
    k,          \* read_log: iterations of `for _ in range(4)` begun this round
    yielded,    \* lengths of the buffers handed to the consumer, in order
    reads,      \* lengths of the buffers returned by inner-loop reads, in order
    cmds,       \* the mode scope's events, in order: "pre", "body", "post"
    lastCmd,    \* the last transport call made and how it went
    modes,      \* the values of the mode commands sent, in order
    fetches,    \* the fetch commands written, in order
    nTimeouts,  \* inner-loop reads that timed out
    roundReads, \* data reads attempted since the last fetch command
    nBulk,      \* bulk transfers attempted
    dev,        \* environment: a device that streams its log: bytes per read, bytes left
    packet,     \* the settings record in hand
    wire,       \* the bytes of packet.pack()
    decoded,    \* the result of SettingsPacket.unpack
    din,        \* the bytes handed to SettingsPacket.unpack
    pin,        \* data_parser: the buffers of the reader not yet consumed
    ppos,       \* data_parser: bytes taken from the chained reader so far
    pout,       \* data_parser: the measurements produced, in tenths
    pst         \* data_parser: "idle", "run", "stop" or "error"

sessionVars == <<op, pc, exc, outcome, total, remaining, i, k, yielded, reads,
                 cmds, lastCmd, modes, fetches, nTimeouts, roundReads,
                 nBulk, dev>>
codecVars == <<packet, wire, decoded, din>>
parserVars == <<pin, ppos, pout, pst>>

vars == <<sessionVars, codecVars, parserVars>>
(***************************************************************************)
(* Exceptions.                                                             *)
(***************************************************************************)
NoExc == [type |-> "none", kind |-> "none"]
USBError(e) == [type |-> "USBError", kind |-> e]
AssertionError == [type |-> "AssertionError", kind |-> "none"]
StructErrorExc == [type |-> StructError, kind |-> "none"]
GeneratorExit == [type |-> "GeneratorExit", kind |-> "none"]

\* the kinds of usb.USBError the transport raises
USBErrors == {"timeout", "pipe", "io"}

\* e.errno
Errno(e) == CASE e = "pipe" -> 32
              [] e = "timeout" -> 110
              [] e = "io" -> 5

\* e.message == 'Operation timed out'
IsTimedOut(e) == e = "timeout"

ResOf(r) == IF r.t = "ret" THEN "ok" ELSE r.e

(***************************************************************************)
(* _send_control: what the caller sees of a control transfer that went r.  *)
(***************************************************************************)
\* variant: `except usb.USBError: pass`, every error of the transfer swallowed
SendControlSwallowAll(r) == Ret(0)

SendControl(r) ==
    IF r.t = "raise" /\ Errno(r.e) # PIPE_ERRNO THEN RaiseInt(r.e) ELSE Ret(0)

(***************************************************************************)
(* _temporary_device_state: where control goes when the body is left with  *)
(* exception e (NoExc: it returned).  The `finally` sends the post-state   *)
(* command on every way out.                                               *)
(***************************************************************************)
\* variant: no try/finally, the post-state command only after a body that returned
LeaveNoFinally(e) ==
    IF e = NoExc THEN [pc |-> "post", exc |-> e, outcome |-> NoExc]
    ELSE [pc |-> "done", exc |-> NoExc, outcome |-> e]

\* variant: `except Exception:` in place of `finally:`, which GeneratorExit passes by
LeaveExceptException(e) ==
    IF e = GeneratorExit THEN [pc |-> "done", exc |-> NoExc, outcome |-> e]
    ELSE [pc |-> "post", exc |-> e, outcome |-> NoExc]

\* variant: `except: send post; raise`, no post-state command after a body that returned
LeaveOnErrorOnly(e) ==
    IF e = NoExc THEN [pc |-> "done", exc |-> NoExc, outcome |-> NoExc]
    ELSE [pc |-> "post", exc |-> e, outcome |-> NoExc]

Leave(e) == [pc |-> "post", exc |-> e, outcome |-> NoExc]

(***************************************************************************)
(* read_log's loop heads.                                                  *)
(***************************************************************************)
\* `while 0 < remaining`
WhileHead(rem) == IF 0 < rem THEN "w_fetch" ELSE "exit"

\* variant: the generator returns after the four reads of a round
ForHeadSingleRound(rem, kk) ==
    IF kk < INNER_READS /\ ~(rem <= 0) THEN "r_data" ELSE "exit"

\* variant: `while remaining > 0:` in place of the for loop, no cap on the reads
ForHeadNoCap(rem, kk) ==
    IF ~(rem <= 0) THEN "r_data" ELSE WhileHead(rem)

\* `for _ in range(4): if remaining <= 0: break`, kk iterations begun
ForHead(rem, kk) ==
    IF kk < INNER_READS /\ ~(rem <= 0) THEN "r_data" ELSE WhileHead(rem)

\* variant: the except clause re-raises whatever it caught
InnerHandlerRaiseAll(e) == "raise"

\* variant: the except clause swallows whatever it caught
InnerHandlerSwallowAll(e) == "swallow"

\* the except clause of the inner loop: "raise" or "swallow"
InnerHandler(e) == IF ~IsTimedOut(e) THEN "raise" ELSE "swallow"

\* variant: the index counts from 0, `i += 1` after the write
FetchCmdZeroBased(j) == pack(<<"B", "B", "B">>, <<15, j - 1, 0>>)

\* variant: the index wraps, `i & 0xff`
FetchCmdWrap(j) == pack(<<"B", "B", "B">>, <<15, j % 256, 0>>)

\* wdata = pack('BBB', 0x0f, i, 0)
FetchCmd(j) == pack(<<"B", "B", "B">>, <<15, j, 0>>)

\* variant: unpack_from, which reads the first three bytes of a longer buffer
InitResponsePrefix(buf) ==
    IF Len(buf) < 3 THEN RaiseSeq(StructError)
    ELSE unpack(<<"B", "H">>, SubSeq(buf, 1, 3))

\* unpack('>BH', buf) of the init response: (cmd, total)
InitResponse(buf) == unpack(<<"B", "H">>, buf)

\* variant: buf.startswith(DOWNLOAD_CHUNK_OK_RES)
AckMatchesPrefix(buf) ==
    Len(buf) >= 3 /\ SubSeq(buf, 1, 3) = DOWNLOAD_CHUNK_OK_RES

\* DOWNLOAD_CHUNK_OK_RES == buf
AckMatches(buf) == DOWNLOAD_CHUNK_OK_RES = buf

\* variant: buf.startswith('\xff')
SettingsAckStartsWith(buf) ==
    Len(buf) >= 1 /\ SubSeq(buf, 1, 1) = SETTINGS_ACK

\* '\xff' == buf
SettingsAckMatches(buf) == SETTINGS_ACK = buf

(***************************************************************************)
(* The environment: what the transport may answer.                         *)
(***************************************************************************)
Raises == {RaiseSeq(e) : e \in USBErrors}
RaisesInt == {RaiseInt(e) : e \in USBErrors}

CtlResults == {Ret(0)} \cup RaisesInt

\* a write accepts all the bytes or one fewer, or fails
WriteResults(data) == {Ret(Len(data)), Ret(Len(data) - 1)} \cup RaisesInt

InitResponses ==
    {<<c, 0, lo>> : c \in {15, 14}, lo \in 0..MaxTotal}
    \cup {<<15, 1, 0>>, <<15, 0, 1, 7>>, <<14, 0, 1, 7>>, <<15, 0>>, <<>>}

DefaultRecord ==
    [year |-> 2013, month |-> 7, day |-> 14, hour |-> 9, min |-> 30, sec |-> 5,
     rec_int |-> 10, alm_int |-> 0, smpl_int |-> 60, auto |-> 1,
     temp_high |-> 40, temp_low |-> -10, hum_high |-> 90, hum_low |-> 20,
     pressure_high |-> 1050, pressure_low |-> 980, alt |-> -12, samples |-> 300]

SettingsResponses ==
    LET full == SettingsPack(DefaultRecord).v
    IN {full, SubSeq(full, 1, Len(full) - 4), <<>>}

AckResponses == {DOWNLOAD_CHUNK_OK_RES, <<254, 1>>, <<254, 1, 0, 0>>, <<254, 1, 1>>, <<>>}

\* len(buf) of a data read: an empty buffer, a short one, a full one
DataLens == {0, 1, BUF_SIZE}

SettingsAckResponses == {SETTINGS_ACK, <<0>>, <<255, 255>>, <<>>}

\* the records send_settings is called with; the last cannot be packed
SessionPackets ==
    {DefaultRecord, [DefaultRecord EXCEPT !.sec = 256]}

(***************************************************************************)
(* Steps.                                                                  *)
(***************************************************************************)
Goto(p) == pc' = p /\ UNCHANGED <<exc, outcome>>

Exit(e) == LET l == Leave(e)
           IN pc' = l.pc /\ exc' = l.exc /\ outcome' = l.outcome

Step(target) == IF target = "exit" THEN Exit(NoExc) ELSE Goto(target)

Bulk(call, r) == /\ lastCmd' = [call |-> call, res |-> ResOf(r), val |-> r.v]
                 /\ nBulk' = nBulk + 1

\* read_log(): the generator is created; none of its code has run
CallReadLog ==
    /\ pc = "idle"
    /\ op' = "read_log"
    /\ pc' = "start"
    /\ UNCHANGED <<exc, outcome, total, remaining, i, k, yielded, reads, cmds,
                   lastCmd, modes, fetches, nTimeouts, roundReads, nBulk,
                   dev, codecVars, parserVars>>

\* the consumer's first next(): the generator runs up to the `with`
GenStart ==
    /\ pc = "start"
    /\ pc' = "pre"
    /\ UNCHANGED <<op, exc, outcome, total, remaining, i, k, yielded, reads, cmds,
                   lastCmd, modes, fetches, nTimeouts, roundReads, nBulk,
                   dev, codecVars, parserVars>>

\* the consumer drops a generator it never started: no code runs
GenDrop ==
    /\ pc = "start"
    /\ pc' = "done"
    /\ outcome' = GeneratorExit
    /\ UNCHANGED <<op, exc, total, remaining, i, k, yielded, reads, cmds,
                   lastCmd, modes, fetches, nTimeouts, roundReads, nBulk,
                   dev, codecVars, parserVars>>

\* the consumer's next() at `yield buf`: the for loop goes on
GenResume ==
    /\ pc = "yield"
    /\ LET target == ForHead(remaining, k)
       IN /\ Step(target)
          /\ k' = IF target = "r_data" THEN k + 1 ELSE 0
    /\ UNCHANGED <<op, total, remaining, i, yielded, reads, cmds,
                   lastCmd, modes, fetches, nTimeouts, roundReads, nBulk,
                   dev, codecVars, parserVars>>

\* the consumer abandons the iteration: GeneratorExit is raised at `yield buf`
GenClose ==
    /\ pc = "yield"
    /\ Exit(GeneratorExit)
    /\ UNCHANGED <<op, total, remaining, i, k, yielded, reads, cmds,
                   lastCmd, modes, fetches, nTimeouts, roundReads, nBulk,
                   dev, codecVars, parserVars>>

\* send_settings(packet) is called
CallSendSettings(p) ==
    /\ pc = "idle"
    /\ op' = "send_settings"
    /\ packet' = p
    /\ pc' = "legacy"
    /\ UNCHANGED <<exc, outcome, total, remaining, i, k, yielded, reads, cmds,
                   lastCmd, modes, fetches, nTimeouts, roundReads, nBulk,
                   dev, wire, decoded, din, parserVars>>

\* send_settings: _send_control(REQTYPE_HOST_TO_DEVICE, 0, 0xffff), any USBError passed
LegacyCtl(r) ==
    /\ pc = "legacy"
    /\ lastCmd' = [call |-> "ctl_legacy", res |-> ResOf(r), val |-> r.v]
    /\ Goto("pre")
    /\ UNCHANGED <<op, total, remaining, i, k, yielded, reads, cmds,
                   modes, fetches, nTimeouts, roundReads, nBulk,
                   dev, codecVars, parserVars>>

\* _temporary_device_state: the pre-state command, then the body
SendPre(r) ==
    /\ pc = "pre"
    /\ lastCmd' = [call |-> "ctl_pre", res |-> ResOf(r), val |-> r.v]
    /\ modes' = Append(modes, STATE_PRIMED)
    /\ IF SendControl(r).t = "raise"
       THEN /\ cmds' = Append(cmds, "pre")
            /\ Exit(USBError(r.e))
       ELSE /\ cmds' = cmds \o <<"pre", "body">>
            /\ Goto(IF op = "read_log" THEN "w_init" ELSE "w_hdr")
    /\ UNCHANGED <<op, total, remaining, i, k, yielded, reads,
                   fetches, nTimeouts, roundReads, nBulk,
                   dev, codecVars, parserVars>>

\* _temporary_device_state: the finally clause
SendPost(r) ==
    /\ pc = "post"
    /\ lastCmd' = [call |-> "ctl_post", res |-> ResOf(r), val |-> r.v]
    /\ modes' = Append(modes, STATE_IDLE)
    /\ cmds' = Append(cmds, "post")
    /\ pc' = "done"
    /\ exc' = NoExc
    /\ outcome' = IF SendControl(r).t = "raise" THEN USBError(r.e) ELSE exc
    /\ UNCHANGED <<op, total, remaining, i, k, yielded, reads,
                   fetches, nTimeouts, roundReads, nBulk,
                   dev, codecVars, parserVars>>

\* read_log: self._write_oep(DOWNLOAD_INIT_CMD)
WriteInit(r) ==
    /\ pc = "w_init"
    /\ Bulk("w_init", r)
    /\ IF r.t = "raise" THEN Exit(USBError(r.e)) ELSE Goto("r_init")
    /\ UNCHANGED <<op, total, remaining, i, k, yielded, reads, cmds,
                   modes, fetches, nTimeouts, roundReads,
                   dev, codecVars, parserVars>>

\* read_log: cmd, total = unpack('>BH', self._read_iep(BUF_SIZE)); assert cmd == 0xf
ReadInit(r) ==
    /\ pc = "r_init"
    /\ Bulk("r_init", r)
    /\ IF r.t = "raise"
       THEN Exit(USBError(r.e)) /\ UNCHANGED total
       ELSE LET u == InitResponse(r.v)
            IN IF u.t = "raise"
               THEN Exit(StructErrorExc) /\ UNCHANGED total
               ELSE /\ total' = u.v[2]
                    /\ IF u.v[1] = DOWNLOAD_INIT_RES_PRFIX
                       THEN Goto("r_settings")
                       ELSE Exit(AssertionError)
    /\ UNCHANGED <<op, remaining, i, k, yielded, reads, cmds,
                   modes, fetches, nTimeouts, roundReads,
                   dev, codecVars, parserVars>>

\* read_log: settings_pkt = self._read_iep(BUF_SIZE); SettingsPacket.unpack;
\* i = 0; remaining = total; the first test of the while
ReadSettings(r) ==
    /\ pc = "r_settings"
    /\ Bulk("r_settings", r)
    /\ IF r.t = "raise"
       THEN Exit(USBError(r.e)) /\ UNCHANGED <<i, remaining>>
       ELSE IF SettingsUnpack(r.v).t = "raise"
            THEN Exit(StructErrorExc) /\ UNCHANGED <<i, remaining>>
            ELSE /\ i' = 0
                 /\ remaining' = total
                 /\ Step(WhileHead(total))
    /\ UNCHANGED <<op, total, k, yielded, reads, cmds,
                   modes, fetches, nTimeouts, roundReads,
                   dev, codecVars, parserVars>>

\* read_log: i += 1; wdata = pack('BBB', 0x0f, i, 0); self._write_oep(wdata)
WriteFetch(r) ==
    /\ pc = "w_fetch"
    /\ i' = i + 1
    /\ LET wdata == FetchCmd(i + 1)
       IN IF wdata.t = "raise"
          THEN /\ Exit(StructErrorExc)
               /\ UNCHANGED <<lastCmd, nBulk, fetches, roundReads>>
          ELSE /\ Bulk("w_fetch", r)
               /\ fetches' = Append(fetches, wdata.v)
               /\ roundReads' = 0
               /\ IF r.t = "raise" THEN Exit(USBError(r.e)) ELSE Goto("r_ack")
    /\ UNCHANGED <<op, total, remaining, k, yielded, reads, cmds,
                   modes, nTimeouts, dev, codecVars, parserVars>>

\* read_log: assert DOWNLOAD_CHUNK_OK_RES == self._read_iep(BUF_SIZE);
\* the first test of the for loop
ReadAck(r) ==
    /\ pc = "r_ack"
    /\ Bulk("r_ack", r)
    /\ IF r.t = "raise"
       THEN Exit(USBError(r.e)) /\ k' = 0
       ELSE IF ~AckMatches(r.v)
            THEN Exit(AssertionError) /\ k' = 0
            ELSE LET target == ForHead(remaining, 0)
                 IN /\ Step(target)
                    /\ k' = IF target = "r_data" THEN 1 ELSE 0
    /\ UNCHANGED <<op, total, remaining, i, yielded, reads, cmds,
                   modes, fetches, nTimeouts, roundReads,
                   dev, codecVars, parserVars>>

\* read_log: buf = self._read_iep(BUF_SIZE, timeout=100); remaining -= len(buf);
\* yield buf -- and the except clause around the for loop.  r.v is len(buf).
ReadData(r) ==
    /\ pc = "r_data"
    /\ Bulk("r_data", r)
    /\ roundReads' = roundReads + 1
    /\ IF r.t = "ret"
       THEN /\ remaining' = remaining - r.v
            /\ reads' = Append(reads, r.v)
            /\ yielded' = Append(yielded, r.v)
            /\ Goto("yield")
            /\ UNCHANGED <<k, nTimeouts>>
       ELSE /\ nTimeouts' = IF IsTimedOut(r.e) THEN nTimeouts + 1 ELSE nTimeouts
            /\ k' = 0
            /\ IF InnerHandler(r.e) = "raise"
               THEN Exit(USBError(r.e))
               ELSE Step(WhileHead(remaining))
            /\ UNCHANGED <<remaining, reads, yielded>>
    /\ UNCHANGED <<op, total, i, cmds, modes, fetches, codecVars, parserVars>>

\* send_settings: assert 3 == self._write_oep('0e4000'.decode('hex'))
WriteHdr(r) ==
    /\ pc = "w_hdr"
    /\ Bulk("w_hdr", r)
    /\ IF r.t = "raise" THEN Exit(USBError(r.e))
       ELSE IF 3 # r.v THEN Exit(AssertionError)
       ELSE Goto("w_pkt")
    /\ UNCHANGED <<op, total, remaining, i, k, yielded, reads, cmds,
                   modes, fetches, nTimeouts, roundReads,
                   dev, codecVars, parserVars>>

\* send_settings: self._write_oep(packet.pack())
WritePkt(r) ==
    /\ pc = "w_pkt"
    /\ LET data == SettingsPack(packet)
       IN IF data.t = "raise"
          THEN /\ Exit(StructErrorExc)
               /\ UNCHANGED <<lastCmd, nBulk, wire>>
          ELSE /\ Bulk("w_pkt", r)
               /\ wire' = data
               /\ IF r.t = "raise" THEN Exit(USBError(r.e)) ELSE Goto("r_sack")
    /\ UNCHANGED <<op, total, remaining, i, k, yielded, reads, cmds,
                   modes, fetches, nTimeouts, roundReads,
                   dev, packet, decoded, din, parserVars>>

\* send_settings: assert '\xff' == self._read_iep(BUF_SIZE)
ReadSAck(r) ==
    /\ pc = "r_sack"
    /\ Bulk("r_sack", r)
    /\ IF r.t = "raise" THEN Exit(USBError(r.e))
       ELSE IF ~SettingsAckMatches(r.v) THEN Exit(AssertionError)
       ELSE Exit(NoExc)
    /\ UNCHANGED <<op, total, remaining, i, k, yielded, reads, cmds,
                   modes, fetches, nTimeouts, roundReads,
                   dev, codecVars, parserVars>>

(***************************************************************************)
(* data_parser and split_every.  A measurement is kept in tenths: the      *)
(* code's x / 10. is the value here divided by ten.                        *)
(***************************************************************************)
RECURSIVE ChainWholeRecords(_)
\* variant: `for buf in reader: split_every(6, buf)`, the bytes of a buffer
\* past its last whole record are not carried over to the next buffer
ChainWholeRecords(bufs) ==
    IF bufs = <<>> THEN <<>>
    ELSE SubSeq(Head(bufs), 1, Len(Head(bufs)) - (Len(Head(bufs)) % 6))
         \o ChainWholeRecords(Tail(bufs))

RECURSIVE Chain(_)
\* chain.from_iterable(reader)
Chain(bufs) == IF bufs = <<>> THEN <<>> ELSE Head(bufs) \o Chain(Tail(bufs))

Min(a, b) == IF a < b THEN a ELSE b

\* list(islice(i, n)) with pos items of the iterable already taken
Islice(flat, pos, n) == SubSeq(flat, pos + 1, Min(pos + n, Len(flat)))

\* variant: split_every stops at a piece shorter than n
SplitEveryDropShort(n, flat, pos) ==
    LET piece == Islice(flat, pos, n)
    IN IF Len(piece) < n THEN [t |-> "break", piece |-> piece]
       ELSE [t |-> "yield", piece |-> piece]

\* split_every's loop body: "break" on an empty piece, else the piece is yielded
SplitEvery(n, flat, pos) ==
    LET piece == Islice(flat, pos, n)
    IN IF piece = <<>> THEN [t |-> "break", piece |-> piece]
       ELSE [t |-> "yield", piece |-> piece]

\* variant: the temperature word read as signed too
MeasurementAllSigned == <<"h", "h", "h">>

MEASUREMENT == <<"h", "H", "h">>
RECORD_SIZE == 6

pres(x) == x + PRESSURE_BIAS
temp(x) == x
hum(x) == x

\* the consumer takes the next measurement from data_parser(reader)
ParserNext ==
    /\ pst = "run"
    /\ LET s == SplitEvery(RECORD_SIZE, Chain(pin), ppos)
       IN IF s.t = "break"
          THEN pst' = "stop" /\ UNCHANGED <<ppos, pout>>
          ELSE /\ ppos' = ppos + Len(s.piece)
               /\ LET u == unpack(MEASUREMENT, s.piece)
                  IN IF u.t = "raise"
                     THEN pst' = "error" /\ UNCHANGED pout
                     ELSE /\ pout' = Append(pout, <<pres(u.v[1]), temp(u.v[2]), hum(u.v[3])>>)
                          /\ UNCHANGED pst
    /\ UNCHANGED <<pin, sessionVars, codecVars>>

(***************************************************************************)
(* SettingsPacket used on its own.                                         *)
(***************************************************************************)
NoResult == [t |-> "none", v |-> <<>>, e |-> "none"]
NoRecord == [t |-> "none"]

CodecPack ==
    /\ wire = NoResult
    /\ wire' = SettingsPack(packet)
    /\ UNCHANGED <<packet, decoded, din, sessionVars, parserVars>>

CodecUnpack(data) ==
    /\ decoded = NoRecord
    /\ decoded' = SettingsUnpack(data)
    /\ din' = data
    /\ UNCHANGED <<packet, wire, sessionVars, parserVars>>

(***************************************************************************)
(* Initial states.                                                         *)
(***************************************************************************)
NoDevice == [chunk |-> 0, left |-> 0]

ZeroRecord == [f \in {SettingsFields[n] : n \in 1..Len(SettingsFields)} |-> 0]

SessionIdle ==
    /\ op = "none"
    /\ pc = "idle"
    /\ exc = NoExc
    /\ outcome = NoExc
    /\ total = 0
    /\ remaining = 0
    /\ i = 0
    /\ k = 0
    /\ yielded = <<>>
    /\ reads = <<>>
    /\ cmds = <<>>
    /\ lastCmd = [call |-> "none", res |-> "ok", val |-> 0]
    /\ modes = <<>>
    /\ fetches = <<>>
    /\ nTimeouts = 0
    /\ roundReads = 0
    /\ nBulk = 0

CodecIdle == packet = ZeroRecord /\ wire = NoResult /\ decoded = NoRecord /\ din = <<>>

ParserIdle == pin = <<>> /\ ppos = 0 /\ pout = <<>> /\ pst = "idle"

Init == SessionIdle /\ dev = NoDevice /\ CodecIdle /\ ParserIdle

(***************************************************************************)
(* The session against an arbitrary transport.                             *)
(***************************************************************************)
DataResults ==
    {Ret(n) : n \in {m \in DataLens : Len(reads) < MaxBufs}}
    \cup {RaiseInt(e) : e \in {x \in USBErrors : IsTimedOut(x) => nTimeouts < MaxTimeouts}}

DoCallSendSettings == \E p \in SessionPackets : CallSendSettings(p)
DoLegacyCtl == \E r \in CtlResults : LegacyCtl(r)
DoSendPre == \E r \in CtlResults : SendPre(r)
DoSendPost == \E r \in CtlResults : SendPost(r)
DoWriteInit == \E r \in WriteResults(DOWNLOAD_INIT_CMD) : WriteInit(r)
DoReadInit == \E r \in {Ret(b) : b \in InitResponses} \cup Raises : ReadInit(r)
DoReadSettings == \E r \in {Ret(b) : b \in SettingsResponses} \cup Raises : ReadSettings(r)
DoWriteFetch == \E r \in WriteResults(DOWNLOAD_INIT_CMD) : WriteFetch(r)
DoReadAck == \E r \in {Ret(b) : b \in AckResponses} \cup Raises : ReadAck(r)
DoReadData == (\E r \in DataResults : ReadData(r)) /\ UNCHANGED dev
DoWriteHdr == \E r \in WriteResults(SETTINGS_HEADER) : WriteHdr(r)
DoWritePkt == \E r \in {Ret(32), Ret(31)} \cup RaisesInt : WritePkt(r)
DoReadSAck == \E r \in {Ret(b) : b \in SettingsAckResponses} \cup Raises : ReadSAck(r)

Next ==
    \/ CallReadLog
    \/ GenStart
    \/ GenDrop
    \/ GenResume
    \/ GenClose
    \/ DoCallSendSettings
    \/ DoLegacyCtl
    \/ DoSendPre
    \/ DoSendPost
    \/ DoWriteInit
    \/ DoReadInit
    \/ DoReadSettings
    \/ DoWriteFetch
    \/ DoReadAck
    \/ DoReadData
    \/ DoWriteHdr
    \/ DoWritePkt
    \/ DoReadSAck

Spec == Init /\ [][Next]_vars

(***************************************************************************)
(* data_parser on its own: the reader's buffers are drawn at the start.    *)
(***************************************************************************)
ParserRecords == {<<0, 0, 3, 232, 255, 246>>,
                  <<255, 255, 0, 0, 0, 1>>,
                  <<128, 0, 255, 255, 127, 255>>}

RECURSIVE RecordStreams(_)
\* the concatenations of n records
RecordStreams(n) ==
    IF n = 0 THEN {<<>>}
    ELSE {r \o s : r \in ParserRecords, s \in RecordStreams(n - 1)}

\* at most max records, then a group of 0 to 5 bytes
ParserStreams(max) ==
    {s \o SubSeq(<<1, 2, 3, 4, 5>>, 1, n) :
        s \in UNION {RecordStreams(m) : m \in 0..max}, n \in 0..(RECORD_SIZE - 1)}

\* a stream cut into three buffers, some of them empty
Cuts(s) == UNION {{<<SubSeq(s, 1, a), SubSeq(s, a + 1, b), SubSeq(s, b + 1, Len(s))>> :
                     b \in a..Len(s)} : a \in 0..Len(s)}

ParserInputs(max) == UNION {{<<s>>} \cup Cuts(s) : s \in ParserStreams(max)}

InitParser ==
    /\ SessionIdle /\ dev = NoDevice /\ CodecIdle
    /\ pin \in ParserInputs(MaxRecords)
    /\ ppos = 0
    /\ pout = <<>>
    /\ pst = "run"

NextParser == ParserNext

SpecParser == InitParser /\ [][NextParser]_vars

(***************************************************************************)
(* SettingsPacket on its own: the record is drawn at the start.            *)
(***************************************************************************)
CodecRecords ==
    {[DefaultRecord EXCEPT !.sec = a, !.year = b, !.rec_int = c, !.alm_int = c,
                           !.temp_high = d, !.hum_high = e, !.pressure_high = f] :
        a \in {0, 5, 59}, b \in {5, 2013}, c \in {0, 10}, d \in {0, 40},
        e \in {0, 90}, f \in {1013, 1050}}
    \cup {[DefaultRecord EXCEPT !.year = 7, !.day = 7, !.hour = 7, !.min = 7, !.sec = 7,
                                !.temp_high = 0, !.temp_low = 0, !.hum_high = 0,
                                !.hum_low = 0, !.pressure_high = g, !.pressure_low = g] :
        g \in {1013, 1126}}
    \cup {[DefaultRecord EXCEPT !.sec = 256]}

InitCodec ==
    /\ SessionIdle /\ dev = NoDevice /\ ParserIdle
    /\ packet \in CodecRecords
    /\ wire = NoResult
    /\ decoded = NoRecord
    /\ din = <<>>

DoCodecUnpack ==
    /\ wire.t = "ret"
    /\ \E data \in {wire.v, SubSeq(wire.v, 1, Len(wire.v) - 4)} : CodecUnpack(data)

NextCodec == CodecPack \/ DoCodecUnpack

SpecCodec == InitCodec /\ [][NextCodec]_vars

(***************************************************************************)
(* The download against a device that behaves: it announces the size of    *)
(* its log, acknowledges every fetch, and answers every data read with the *)
(* next dev.chunk bytes of the log (fewer at the end), never failing.      *)
(***************************************************************************)
LongTotals == {0, 260, 1021, 65535}
LongChunks == {1, 64, BUF_SIZE}

InitLong ==
    /\ SessionIdle /\ CodecIdle /\ ParserIdle
    /\ dev \in [chunk : LongChunks, left : LongTotals]

LongSendPre == SendPre(Ret(0))
LongSendPost == SendPost(Ret(0))
LongWriteInit == WriteInit(Ret(Len(DOWNLOAD_INIT_CMD)))
LongReadInit == ReadInit(Ret(<<DOWNLOAD_INIT_RES_PRFIX>> \o EncodeBE16(dev.left)))
LongReadSettings == ReadSettings(Ret(SettingsPack(DefaultRecord).v))
LongWriteFetch == WriteFetch(Ret(3))
LongReadAck == ReadAck(Ret(DOWNLOAD_CHUNK_OK_RES))
LongReadData ==
    /\ dev.left > 0
    /\ ReadData(Ret(Min(dev.chunk, dev.left)))
    /\ dev' = [dev EXCEPT !.left = @ - Min(dev.chunk, dev.left)]

NextLong ==
    \/ CallReadLog
    \/ GenStart
    \/ GenResume
    \/ LongSendPre
    \/ LongSendPost
    \/ LongWriteInit
    \/ LongReadInit
    \/ LongReadSettings
    \/ LongWriteFetch
    \/ LongReadAck
    \/ LongReadData

SpecLong == InitLong /\ [][NextLong]_vars

(***************************************************************************)
(* A download from a device that announces more than it delivers in 255    *)
(* rounds: every data read times out (left = 0), returns an empty buffer   *)
(* (chunk = 0) or returns one byte (chunk = 1).                            *)
(***************************************************************************)
SlowTotal == INNER_READS * 255 + 1
SlowChunks == {0, 1}
SlowLefts == {0, SlowTotal}

InitSlow ==
    /\ SessionIdle /\ CodecIdle /\ ParserIdle
    /\ dev \in [chunk : SlowChunks, left : SlowLefts]

SlowReadInit == ReadInit(Ret(<<DOWNLOAD_INIT_RES_PRFIX>> \o EncodeBE16(SlowTotal)))

SlowReadTimeout ==
    /\ dev.left = 0
    /\ ReadData(RaiseInt("timeout"))
    /\ UNCHANGED dev

SlowReadData ==
    /\ dev.left > 0
    /\ ReadData(Ret(dev.chunk))
    /\ dev' = [dev EXCEPT !.left = @ - dev.chunk]

NextSlow ==
    \/ CallReadLog
    \/ GenStart
    \/ GenResume
    \/ LongSendPre
    \/ LongSendPost
    \/ LongWriteInit
    \/ SlowReadInit
    \/ LongReadSettings
    \/ LongWriteFetch
    \/ LongReadAck
    \/ SlowReadTimeout
    \/ SlowReadData

SpecSlow == InitSlow /\ [][NextSlow]_vars

(***************************************************************************)
(* Properties.                                                             *)
(***************************************************************************)
RECURSIVE SumSeq(_)
\* the sum of a sequence, by halves so that long sequences stay shallow
SumSeq(q) ==
    IF Len(q) = 0 THEN 0
    ELSE IF Len(q) = 1 THEN q[1]
    ELSE LET h == Len(q) \div 2
         IN SumSeq(SubSeq(q, 1, h)) + SumSeq(SubSeq(q, h + 1, Len(q)))

Range(q) == {q[n] : n \in 1..Len(q)}

Last(q) == q[Len(q)]

\* C1: _temporary_device_state sends the post-state command after the body
\* however the body ends: once the scope is over its events are pre, body,
\* post in this order, the post-state command is the last transport call made,
\* and nothing of the operation runs after it.
C1_PostAfterBody ==
    /\ (pc = "done" /\ "body" \in Range(cmds)) =>
           /\ cmds = <<"pre", "body", "post">>
           /\ lastCmd.call = "ctl_post"
           /\ modes = <<STATE_PRIMED, STATE_IDLE>>
    /\ (pc # "done" /\ "body" \in Range(cmds)) => cmds = <<"pre", "body">>
    /\ "post" \in Range(cmds) => pc = "done"

\* the body of send_settings raised (a wrong acknowledgement) and the scope is over
C1_Witness ==
    /\ op = "send_settings"
    /\ pc = "done"
    /\ outcome = AssertionError
    /\ nBulk = 3
    /\ cmds = <<"pre", "body", "post">>

\* C2: a download that sent the Primed command and has ended, in whatever way,
\* has sent the Idle command last.
C2_IdleAfterPrimed ==
    (op = "read_log" /\ pc = "done" /\ STATE_PRIMED \in Range(modes)) =>
        Last(modes) = STATE_IDLE

\* the consumer abandoned the iteration after two buffers
C2_Witness ==
    /\ op = "read_log"
    /\ pc = "done"
    /\ outcome = GeneratorExit
    /\ Len(yielded) = 2
    /\ modes = <<STATE_PRIMED, STATE_IDLE>>

\* C3: against a device that delivers exactly the announced total in non-empty
\* reads of at most 128 bytes and acknowledges every fetch, read_log ends
\* normally having yielded exactly total bytes (for total = 0 without a fetch).
C3_ExactDownload ==
    pc = "done" =>
        /\ outcome = NoExc
        /\ SumSeq(yielded) = total
        /\ total = 0 => (fetches = <<>> /\ yielded = <<>>)

\* C4: remaining is total minus the bytes yielded so far, the buffers yielded
\* are the buffers read in the inner loop, in order, and read_log ends without
\* an error only with remaining <= 0, that is with at least total bytes yielded.
C4_RemainingAccounting ==
    /\ yielded = reads
    /\ (op = "read_log" /\ (pc \in {"w_fetch", "r_ack", "r_data", "yield"} \/ fetches # <<>>)) =>
           remaining = total - SumSeq(yielded)
    /\ (op = "read_log" /\ pc = "done" /\ outcome = NoExc) =>
           /\ remaining <= 0
           /\ remaining = total - SumSeq(yielded)
           /\ SumSeq(yielded) >= total

\* a download that ended normally after its last buffer read past the total
C4_Witness ==
    /\ op = "read_log"
    /\ pc = "done"
    /\ outcome = NoExc
    /\ Len(yielded) = 2
    /\ remaining < 0

\* C5: a timeout of a data read of the inner loop leaves remaining as it was,
\* yields nothing, raises nothing, and with remaining > 0 the next call is the
\* write of the next fetch command.
C5_TimeoutEndsRound ==
    [][(/\ pc = "r_data"
        /\ nBulk' = nBulk + 1
        /\ lastCmd'.call = "r_data"
        /\ lastCmd'.res = "timeout")
       => (/\ remaining' = remaining
           /\ yielded' = yielded
           /\ i' = i
           /\ exc' = NoExc
           /\ outcome' = NoExc
           /\ (remaining > 0 => pc' = "w_fetch"))]_vars

\* a second fetch command was written after a data read timed out
C5_Witness ==
    /\ nTimeouts = 1
    /\ Len(yielded) = 1
    /\ remaining > 0
    /\ Len(fetches) = 2
    /\ lastCmd.call = "w_fetch"
    /\ lastCmd.res = "ok"

\* C6: a transport error of a bulk transfer of the download, other than a
\* timeout of an inner-loop data read, goes straight to the way out with that
\* error in flight; and with a transport error in flight no bulk transfer is
\* made, no fetch command written and nothing yielded: the only step left is
\* the post-state command, after which the caller has a transport error.
C6_OnlyInnerTimeoutsRecovered ==
    /\ [][(/\ op = "read_log"
           /\ nBulk' = nBulk + 1
           /\ lastCmd'.res \in USBErrors
           /\ ~(lastCmd'.call = "r_data" /\ lastCmd'.res = "timeout"))
          => (pc' = "post" /\ exc' = USBError(lastCmd'.res))]_vars
    /\ [][(op = "read_log" /\ exc.type = "USBError")
          => (/\ nBulk' = nBulk
              /\ fetches' = fetches
              /\ yielded' = yielded
              /\ pc' = "done"
              /\ outcome'.type = "USBError")]_vars

\* the read of a chunk acknowledgement timed out after a buffer had been yielded
C6_Witness ==
    /\ op = "read_log"
    /\ pc = "post"
    /\ exc = USBError("timeout")
    /\ lastCmd.call = "r_ack"
    /\ Len(yielded) = 4

\* C7: an acknowledgement other than fe 01 00 raises at once: no data read is
\* made and nothing is yielded in that round, and no further fetch command or
\* bulk transfer follows.
C7_AckMismatchAborts ==
    /\ [][(/\ pc = "r_ack"
           /\ nBulk' = nBulk + 1
           /\ lastCmd'.res = "ok"
           /\ lastCmd'.val # <<254, 1, 0>>)
          => (/\ pc' = "post"
              /\ exc' = AssertionError
              /\ yielded' = yielded
              /\ reads' = reads
              /\ roundReads' = 0)]_vars
    /\ [][(op = "read_log" /\ exc = AssertionError)
          => (/\ nBulk' = nBulk
              /\ fetches' = fetches
              /\ yielded' = yielded
              /\ pc' = "done"
              /\ outcome' # NoExc)]_vars

\* the second fetch was answered with fe 01 00 00
C7_Witness ==
    /\ pc = "post"
    /\ exc = AssertionError
    /\ lastCmd.call = "r_ack"
    /\ lastCmd.val = <<254, 1, 0, 0>>
    /\ Len(fetches) = 2

\* C8 as stated: an init response of three or more bytes is read by its first
\* three bytes alone.
C8_FirstThreeBytes ==
    (lastCmd.call = "r_init" /\ lastCmd.res = "ok" /\ Len(lastCmd.val) >= 3) =>
        IF lastCmd.val[1] = 15
        THEN pc = "r_settings" /\ total = lastCmd.val[2] * 256 + lastCmd.val[3]
        ELSE pc = "post" /\ exc # NoExc /\ fetches = <<>> /\ yielded = <<>>

\* C8, amended: an init response of exactly three bytes with first byte 0x0f
\* sets total to the big-endian value of bytes 2-3 and the session goes on to
\* the settings read; with another first byte it fails with AssertionError, and
\* a response of any other length (longer ones too) fails with struct.error;
\* a session that fails here writes no fetch command and yields nothing.
C8_InitResponse ==
    /\ (lastCmd.call = "r_init" /\ lastCmd.res = "ok") =>
           IF Len(lastCmd.val) = 3 /\ lastCmd.val[1] = 15
           THEN /\ pc = "r_settings"
                /\ exc = NoExc
                /\ total = lastCmd.val[2] * 256 + lastCmd.val[3]
           ELSE /\ pc = "post"
                /\ exc = IF Len(lastCmd.val) # 3 THEN StructErrorExc ELSE AssertionError
                /\ fetches = <<>>
                /\ yielded = <<>>
    /\ (op = "read_log" /\ pc = "done" /\ nBulk <= 2) =>
           (outcome # NoExc /\ fetches = <<>> /\ yielded = <<>>)

\* a four-byte init response that starts 0f has raised struct.error
C8_Witness ==
    /\ lastCmd.call = "r_init"
    /\ lastCmd.val = <<15, 0, 1, 7>>
    /\ pc = "post"
    /\ exc = StructErrorExc

\* C9 as stated: a stream whose length is not a multiple of 6 is decoded
\* without an error.
C9_TrailingGroupDropped ==
    (Len(Chain(pin)) % RECORD_SIZE # 0 /\ pst # "run") =>
        (pst = "stop" /\ Len(pout) = Len(Chain(pin)) \div RECORD_SIZE)

\* C9, amended: data_parser yields one measurement for each complete 6-byte
\* group, in order, and on a stream whose length is not a multiple of 6 it then
\* raises struct.error at the trailing group of 1 to 5 bytes; it ends without
\* an error exactly on the streams whose length is a multiple of 6.
C9_TrailingGroupRaises ==
    LET n == Len(Chain(pin))
    IN /\ pst = "error" => (n % RECORD_SIZE # 0 /\ ppos = n /\ Len(pout) = n \div RECORD_SIZE)
       /\ pst = "stop" => (n % RECORD_SIZE = 0 /\ ppos = n /\ Len(pout) = n \div RECORD_SIZE)
       /\ pst = "run" => (ppos = RECORD_SIZE * Len(pout) /\ ppos <= n)

\* one measurement was produced from eight bytes, then struct.error
C9_Witness ==
    /\ pst = "error"
    /\ Len(Chain(pin)) = 8
    /\ Len(pout) = 1

\* C10: decoding the bytes that encode a record whose intervals are set gives
\* the record back, field by field.
C10_RoundTrip ==
    (decoded.t = "ret" /\ packet.rec_int # 0 /\ packet.alm_int # 0) =>
        decoded.rec = packet

\* C11 as stated: the record SettingsPacket.unpack accepts is 4 bytes shorter
\* than the record SettingsPacket.pack produces.
C11_DecodeFourShorter ==
    (wire.t = "ret" /\ decoded # NoRecord) =>
        (decoded.t = "ret" <=> Len(din) = Len(wire.v) - 4)

\* C11: the record SettingsPacket.unpack accepts has exactly the length of
\* the record SettingsPacket.pack produces, calcsize(FORMAT) =
\* calcsize(XFORMAT): the read layout skips the three reserved bytes and the
\* marker byte as pad bytes, and a record 4 bytes shorter raises struct.error.
C11_SameLength ==
    (wire.t = "ret" /\ decoded # NoRecord) =>
        /\ Len(wire.v) = calcsize(FORMAT)
        /\ decoded.t = "ret" <=> Len(din) = Len(wire.v)
        /\ Len(din) = Len(wire.v) - 4 => (decoded.t = "raise" /\ decoded.e = StructError)

C11_Witness ==
    /\ wire.t = "ret"
    /\ Len(din) = Len(wire.v) - 4
    /\ decoded.t = "raise"


RECURSIVE Concat(_)
\* the bytes of a sequence of buffers, end to end
Concat(bufs) == IF bufs = <<>> THEN <<>> ELSE Head(bufs) \o Concat(Tail(bufs))

\* the big-endian two's-complement value of the byte pair hi, lo
TwosComplement16(hi, lo) ==
    IF hi >= 128 THEN hi * 256 + lo - 65536 ELSE hi * 256 + lo

\* the measurement, in tenths, of the 6-byte record b
RecordTenths(b) ==
    <<TwosComplement16(b[1], b[2]) + 10132,
      b[3] * 256 + b[4],
      TwosComplement16(b[5], b[6])>>

\* C12: for every 6-byte record b0..b5 of the stream, data_parser yields
\* pressure*10 = signed16(b0,b1) + 10132, temperature*10 = unsigned16(b2,b3)
\* and humidity*10 = signed16(b4,b5), big-endian two's complement; the record
\* 00 00 03 E8 FF F6 gives 1013.2, 100.0, -1.0.
C12_MeasurementDecoding ==
    /\ \A n \in 1..Len(pout) :
          pout[n] = RecordTenths(SubSeq(Concat(pin), 6 * n - 5, 6 * n))
    /\ (pin = << <<0, 0, 3, 232, 255, 246>> >> /\ pst = "stop") =>
          pout = << <<10132, 1000, -10>> >>

C12_Witness ==
    /\ pin = << <<128, 0, 255, 255, 127, 255>>, <<0, 0, 3, 232, 255, 246>>, <<>> >>
    /\ pout = << <<-22636, 65535, 32767>>, <<10132, 1000, -10>> >>


\* the transport calls of send_settings that may follow one another
SettingsOrder ==
    {<<"none", "ctl_legacy">>, <<"ctl_legacy", "ctl_pre">>, <<"ctl_pre", "w_hdr">>,
     <<"w_hdr", "w_pkt">>, <<"w_pkt", "r_sack">>, <<"r_sack", "ctl_post">>}
    \cup {<<c, "ctl_post">> : c \in {"ctl_pre", "w_hdr", "w_pkt"}}

\* a transport call is made in this step
CallMade ==
    nBulk' # nBulk \/ modes' # modes \/ lastCmd'.call # lastCmd.call

\* C13: send_settings makes its transport calls in the order legacy control,
\* Primed, header write, record write, acknowledgement read, Idle; a failed
\* legacy control is passed over whatever the error; the call ends without
\* error only after an acknowledgement that is exactly the byte 0xFF; and
\* Idle follows the acknowledgement read whether it matched or not.
C13_SendSettingsSequence ==
    /\ [][(op' = "send_settings" /\ CallMade) =>
              <<lastCmd.call, lastCmd'.call>> \in SettingsOrder]_vars
    /\ [][pc = "legacy" =>
              (pc' = "pre" /\ exc' = NoExc /\ lastCmd'.call = "ctl_legacy")]_vars
    /\ [][(op = "send_settings" /\ pc' = "done" /\ outcome' = NoExc) =>
              /\ lastCmd.call = "r_sack" /\ lastCmd.res = "ok"
              /\ lastCmd.val = SETTINGS_ACK
              /\ nBulk = 3]_vars
    /\ [][pc = "r_sack" =>
              /\ pc' = "post"
              /\ exc' = NoExc <=> (lastCmd'.res = "ok" /\ lastCmd'.val = SETTINGS_ACK)]_vars
    /\ [][(op = "send_settings" /\ pc = "post") =>
              (lastCmd'.call = "ctl_post" /\ modes' = <<STATE_PRIMED, STATE_IDLE>>)]_vars

C13_Witness ==
    /\ op = "send_settings" /\ pc = "done"
    /\ outcome = AssertionError
    /\ nBulk = 3
    /\ modes = <<STATE_PRIMED, STATE_IDLE>>


\* the number of bytes handed to the last bulk write
Requested ==
    CASE lastCmd.call = "w_init" -> Len(DOWNLOAD_INIT_CMD)
      [] lastCmd.call = "w_fetch" -> Len(Last(fetches))
      [] lastCmd.call = "w_hdr" -> Len(SETTINGS_HEADER)
      [] lastCmd.call = "w_pkt" -> Len(wire.v)

\* C14: a bulk write that returns fewer bytes than it was given (the settings
\* header, the encoded settings, the download-init command, a chunk-fetch
\* command) is fatal: the operation is left with an error and no further
\* protocol step is performed.
C14_ShortWriteFatal ==
    (/\ lastCmd.call \in {"w_init", "w_fetch", "w_hdr", "w_pkt"}
     /\ lastCmd.res = "ok"
     /\ lastCmd.val < Requested) =>
        (pc = "post" /\ exc # NoExc)


\* C15: a control transfer that fails with a pipe error (errno 32) counts as
\* sent: after it on Primed the body runs, after it on Idle nothing is raised;
\* any other transport error of a mode command reaches the caller: on Primed
\* the body is skipped with that error in flight, on Idle the operation ends
\* with that error.
C15_PipeErrorSwallowed ==
    /\ [][pc = "pre" =>
              IF lastCmd'.res \in {"ok", "pipe"}
              THEN pc' \in {"w_init", "w_hdr"} /\ exc' = NoExc
              ELSE pc' = "post" /\ exc' = USBError(lastCmd'.res)]_vars
    /\ [][pc = "post" =>
              IF lastCmd'.res \in {"ok", "pipe"}
              THEN pc' = "done" /\ outcome' = exc
              ELSE pc' = "done" /\ outcome' = USBError(lastCmd'.res)]_vars

C15_Witness ==
    /\ pc = "done"
    /\ lastCmd.call = "ctl_post" /\ lastCmd.res = "pipe"
    /\ outcome = NoExc
    /\ yielded # <<>>


\* C16: in a chunk round at most 4 data reads are attempted and at most 4
\* buffers yielded, and no data read is attempted once remaining <= 0; so
\* after k fetch commands at most 4*k buffers have been yielded, and 5
\* buffers take at least 2 rounds.
C16_FourReadsPerRound ==
    /\ roundReads <= INNER_READS
    /\ pc = "r_data" => (remaining > 0 /\ roundReads < INNER_READS)
    /\ Len(yielded) <= INNER_READS * Len(fetches)
    /\ Len(reads) <= INNER_READS * Len(fetches)
    /\ Len(yielded) >= 5 => Len(fetches) >= 2

C16_Witness ==
    /\ Len(yielded) = 5
    /\ Len(fetches) = 2
    /\ roundReads = 1


\* C17: the k-th chunk-fetch command of a session is the bytes 0x0f, k, 0x00
\* with k = 1, 2, 3, ... an unsigned 8-bit value: the indices are consecutive
\* and never repeated, and the round after a round that a timeout ended,
\* even one that delivered nothing, uses the next index.
C17_FetchIndexSequence ==
    /\ [](\A n \in 1..Len(fetches) : n <= 255 /\ fetches[n] = <<15, n, 0>>)
    /\ [][fetches' # fetches =>
              fetches' = Append(fetches, <<15, Len(fetches) + 1, 0>>)]_vars
    /\ [][(lastCmd.call = "r_data" /\ lastCmd.res = "timeout" /\ fetches' # fetches) =>
              Last(fetches')[2] = Last(fetches)[2] + 1]_vars

C17_Witness ==
    /\ nTimeouts = 2
    /\ yielded = <<>>
    /\ fetches = << <<15, 1, 0>>, <<15, 2, 0>>, <<15, 3, 0>> >>


\* the transport calls of read_log that may follow one another
DownloadOrder ==
    {<<"none", "ctl_pre">>, <<"ctl_pre", "w_init">>, <<"w_init", "r_init">>,
     <<"r_init", "r_settings">>, <<"r_settings", "w_fetch">>,
     <<"w_fetch", "r_ack">>, <<"r_ack", "r_data">>,
     <<"r_data", "r_data">>, <<"r_data", "w_fetch">>}
    \cup {<<c, "ctl_post">> : c \in {"ctl_pre", "w_init", "r_init", "r_settings",
                                      "w_fetch", "r_ack", "r_data"}}

\* C18: in read_log and send_settings every bulk transfer comes after the
\* operation's Primed command and before its Idle command; an operation whose
\* code ran sends exactly one Primed and then exactly one Idle; a download
\* goes init write, init-response read, settings read, then per round fetch
\* write, acknowledgement read, data reads, and the first data read of a round
\* follows an acknowledgement that matched.
C18_ProtocolOrder ==
    /\ [](modes \in {<<>>, <<STATE_PRIMED>>, <<STATE_PRIMED, STATE_IDLE>>})
    /\ [](pc = "done" =>
            \/ modes = <<STATE_PRIMED, STATE_IDLE>>
            \/ op = "read_log" /\ lastCmd.call = "none" /\ outcome = GeneratorExit)
    /\ [][nBulk' # nBulk => (modes = <<STATE_PRIMED>> /\ modes' = modes)]_vars
    /\ [][(op' = "read_log" /\ CallMade) =>
              <<lastCmd.call, lastCmd'.call>> \in DownloadOrder]_vars
    /\ [][(op' = "send_settings" /\ CallMade /\ lastCmd.call # "none") =>
              <<lastCmd.call, lastCmd'.call>> \in SettingsOrder]_vars
    /\ [][(lastCmd.call = "r_ack" /\ lastCmd'.call = "r_data") =>
              (lastCmd.res = "ok" /\ lastCmd.val = DOWNLOAD_CHUNK_OK_RES)]_vars

C18_Witness ==
    /\ op = "read_log" /\ pc = "done"
    /\ outcome = NoExc
    /\ Len(fetches) = 2
    /\ Len(yielded) = 5
    /\ modes = <<STATE_PRIMED, STATE_IDLE>>


\* C19: what data_parser produces is determined by the concatenation of the
\* reader's buffers alone, however the bytes are split into buffers (empty
\* buffers, records that straddle a boundary): one measurement for each
\* complete 6-byte group of the concatenation, in stream order.
C19_SplitIndependent ==
    LET flat == Concat(pin)
        groups == Len(flat) \div 6
    IN /\ Len(pout) <= groups
       /\ pst = "run" => ppos = 6 * Len(pout)
       /\ pst \in {"stop", "error"} => Len(pout) = groups
       /\ pst = "stop" => Len(flat) = 6 * groups
       /\ \A n \in 1..Len(pout) :
             pout[n] = RecordTenths(SubSeq(flat, 6 * (n - 1) + 1, 6 * (n - 1) + 6))

C19_Witness ==
    /\ pin = << <<0, 0, 3>>, <<>>, <<232, 255, 246, 128, 0, 255, 255, 127, 255>> >>
    /\ pout = << <<10132, 1000, -10>>, <<-22636, 65535, 32767>> >>
    /\ pst = "stop"


\* C20: one read_log session writes at most 255 fetch commands: with
\* remaining > 0 after round 255 (rounds that timeouts, empty reads or small
\* buffers ended) the index no longer fits an unsigned byte and the session
\* ends with struct.error in place of a 256th fetch, so the number of rounds
\* and of transfers of a session is bounded, and Idle is still sent.
C20_AtMost255Fetches ==
    /\ [](Len(fetches) <= 255 /\ i <= 256)
    /\ [](nBulk <= 3 + 255 * (2 + INNER_READS))
    /\ [][(pc = "w_fetch" /\ i = 255) =>
              /\ remaining > 0
              /\ pc' = "post" /\ exc' = StructErrorExc
              /\ fetches' = fetches /\ nBulk' = nBulk]_vars
    /\ [](pc = "done" /\ i = 256 =>
              /\ outcome = StructErrorExc
              /\ Len(fetches) = 255
              /\ modes = <<STATE_PRIMED, STATE_IDLE>>
              /\ lastCmd.call = "ctl_post")

C20_Witness ==
    /\ pc = "done" /\ i = 256
    /\ nTimeouts = 255
    /\ yielded = <<>>
    /\ Len(fetches) = 255
    /\ outcome = StructErrorExc
    /\ modes = <<STATE_PRIMED, STATE_IDLE>>

=============================================================================
